---- MODULE Spec2Model ----
(***************************************************************************)
(* The mailbox of a process (vm/src/mailbox.rs): three queues of object    *)
(* pointers, a write lock and an allocator.  Other processes deliver with  *)
(* send_from_external, the owner with send_from_self; the owner consumes   *)
(* with receive; the scheduler and the collector query the mailbox.        *)
(* The header of an object (src/object_header.rs) is followed on its own.  *)
(***************************************************************************)
EXTENDS Naturals, Integers, Sequences, FiniteSets, Bags, TLC

\* Total number of messages sent (by anyone) in one behaviour of Spec, of
\* SpecData and of SpecLive.
MaxSends == 2
MaxDataSends == 3
MaxLiveSends == 2

\* Sends in one behaviour of SpecExhaust, where the allocator can run out
\* of memory.
MaxExhaustSends == 2

\* Sends in one behaviour of SpecRace, after those that filled the buffer of
\* `external`.
MaxRaceSends == 1

\* set_falsy() calls made on one object header in a behaviour of SpecHeader.
MaxFalsyCalls == 2

VARIABLES
    external,    \* Mailbox.external : VecDeque<ObjectPointer>
    buffer,      \* the words in the slots of the buffer `external` has
                 \* allocated, those behind its length included
    internal,    \* Mailbox.internal : VecDeque<ObjectPointer>
    locals,      \* Mailbox.locals   : VecDeque<ObjectPointer>
    write_lock,  \* Mailbox.write_lock : the process holding the Mutex, or Free
    nextAddr,    \* Mailbox.allocator : next free address of the mailbox's arena
    pc,          \* per process: the statement it executes next
    original,    \* per sender: the argument of its send_from_external call
    copied,      \* per sender: the result of allocator.copy_object(original)
    tail,        \* per sender: the contents of `external` push_back appends to
    ret,         \* the owner's last receive() result (NoPtr is None)
    suspended,   \* whether the scheduler has the owner suspended
    hm,          \* the scheduler's last has_messages() call
    hmSusp,      \* the owner was suspended during the whole has_messages() call
    hmQueued,    \* history: a message was queued during the whole call so far
    hlp,         \* the owner's last has_local_pointers() result
    iter,        \* the iterator over `external` of the mailbox_pointers()
                 \* call in progress
    mwl,         \* the collector's last mailbox_pointers() work list
    lwl,         \* the collector's last local_pointers() work list
    sentLog,     \* history: every enqueue, in the order the pushes happened
    recvLog,     \* history: every message returned by receive(), in order
    cur,         \* history of the receive() call in progress
    sinceRecv,   \* history: external pushes since the last receive() returned
    lockFree,    \* history: receive() calls still to come after a bulk drain
                 \* of N messages, out of the N-1 that follow it
    lastNone,    \* history: the sends completed when the last receive() that
                 \* returned None was called
    budget,      \* the number of sends the behaviour is limited to
    headers,     \* per object: its ObjectHeader, or NoHeader before new()
    falsyCalls   \* history, per object: the set_falsy() calls made on it

vars == <<external, buffer, internal, locals, write_lock, nextAddr, pc,
          original, copied, tail, ret, suspended, hm, hmSusp, hmQueued, hlp,
          mwl, lwl, sentLog, recvLog, cur, sinceRecv, lockFree, lastNone,
          budget, headers, falsyCalls, iter>>

queues == <<external, internal, locals>>

----------------------------------------------------------------------------
\* Processes

Owner == "owner"
Senders == {"s1", "s2"}
Sched == "sched"
Collector == "collector"
Procs == {Owner, Sched, Collector} \cup Senders
Free == "free"

\* The arena of the mailbox's own allocator.
MailboxHeap == "mailbox"

----------------------------------------------------------------------------
\* Object pointers: the heap and address identify the object, val is its
\* structure (contents).

NoPtr == [heap |-> "none", addr |-> 0, val |-> 0]

Identical(p, q) == p.heap = q.heap /\ p.addr = q.addr

StructurallyEqual(p, q) == p.val = q.val

HeapTag(h) == CASE h = "s1" -> 10 [] h = "s2" -> 20 [] OTHER -> 30

\* The objects a process can pass as a message: those of its own heap.
HeapAddrs(h) == IF h = Owner THEN {1, 2} ELSE {1}

HeapPtrs(h) ==
    { [heap |-> h, addr |-> a, val |-> HeapTag(h) + a] : a \in HeapAddrs(h) }

SeqRange(s) == { s[i] : i \in DOMAIN s }

SeqToBag(s) ==
    [ x \in SeqRange(s) |-> Cardinality({ i \in DOMAIN s : s[i] = x }) ]

----------------------------------------------------------------------------
\* MailboxAllocator::copy_object: a fresh object of the mailbox's arena with
\* the structure of the source.
copy_object(p, addr) == [heap |-> MailboxHeap, addr |-> addr, val |-> p.val]

\* What copy_object gives back when the allocator obtains no block.
NoSpace == [heap |-> "no space", addr |-> 0, val |-> 0]

\* A word that is no pointer to a message: what a slot never written, or a
\* slot of a buffer given back to the allocator, can hold.
Dangling == [heap |-> "freed", addr |-> 0, val |-> 0]

\* VecDeque operations
push_back(q, p) == Append(q, p)
pop_front(q) == IF q = <<>> THEN NoPtr ELSE Head(q)
rest(q) == IF q = <<>> THEN <<>> ELSE Tail(q)

\* VecDeque::new allocates nothing; a push_back that finds the buffer full
\* moves it to a new allocation: of MinCapacity slots the first time, of
\* twice the slots after that.
MinCapacity == 4
grow(c) == IF c = 0 THEN MinCapacity ELSE 2 * c

\* The slots of the buffer `external` has allocated.
capacity == Len(buffer)

\* A new allocation of c slots holding the messages of q: the slots behind
\* them were never written.
moved(q, c) == [i \in 1..c |-> IF i <= Len(q) THEN q[i] ELSE Dangling]

\* VecDeque::push_back on a buffer b that holds the messages q: a full
\* buffer is moved first, then the slot behind the last message is written.
\* The words of the other slots stay.
push_slot(b, q, p) ==
    [(IF Len(q) = Len(b) THEN moved(q, grow(Len(b))) ELSE b)
        EXCEPT ![Len(q) + 1] = p]

\* The iterator of a collector that is not inside mailbox_pointers().
NoIter == [len |-> 0, cap |-> 0]

\* The messages in the mailbox.
Queued == external \o internal \o locals

\* ObjectHeader (object_header.rs 11-24).  The objects whose headers are
\* followed, and the header of an object not constructed yet.
Objects == {"o1", "o2", "o3", "o4"}
None == "None"
EmptyMap == <<>>
NoHeader == [name |-> "unallocated"]

\* ObjectHeader::new (object_header.rs 27-36)
ObjectHeader_new ==
    [name |-> None, attributes |-> EmptyMap, constants |-> EmptyMap,
     methods |-> EmptyMap, pinned |-> FALSE, truthy |-> TRUE]

\* A set_falsy() that flips `truthy`.
set_falsy_flip(h) == [h EXCEPT !.truthy = ~@]

\* ObjectHeader::set_falsy (object_header.rs 38-40)
set_falsy(h) == [h EXCEPT !.truthy = FALSE]

NoCall == [since |-> 0, ne |-> 0, due |-> 0, locks |-> 0, moved |-> 0,
           sent |-> 0, nl |-> 0, ni |-> 0, held |-> 0]
NoHm == [res |-> FALSE, empty |-> FALSE, susp |-> FALSE, queued |-> FALSE]

InitMailbox ==
    /\ external = <<>>
    /\ buffer = <<>>
    /\ iter = NoIter
    /\ internal = <<>>
    /\ locals = <<>>
    /\ write_lock = Free
    /\ nextAddr = 1
    /\ pc = [p \in Procs |-> "idle"]
    /\ original = [s \in Senders |-> NoPtr]
    /\ copied = [s \in Senders |-> NoPtr]
    /\ tail = [s \in Senders |-> <<>>]
    /\ ret = NoPtr
    /\ suspended = FALSE
    /\ hm = NoHm
    /\ hmSusp = FALSE
    /\ hmQueued = FALSE
    /\ hlp = FALSE
    /\ mwl = <<>>
    /\ lwl = <<>>
    /\ sentLog = <<>>
    /\ recvLog = <<>>
    /\ cur = NoCall
    /\ sinceRecv = 0
    /\ lockFree = 0
    /\ lastNone = 0
    /\ headers = [o \in Objects |-> NoHeader]
    /\ falsyCalls = [o \in Objects |-> 0]

Init == InitMailbox /\ budget = MaxSends

\* Sends started so far: the pushes done and the calls in progress.
Started == Len(sentLog) + Cardinality({ s \in Senders : pc[s] # "idle" })

----------------------------------------------------------------------------
\* send_from_external (mailbox.rs 30-35), one action per statement.

\* line 30: a process calls send_from_external(original).
SendCall(s, p) ==
    /\ pc[s] = "idle"
    /\ Started < budget
    /\ original' = [original EXCEPT ![s] = p]
    /\ pc' = [pc EXCEPT ![s] = "sx_lock"]
    /\ UNCHANGED <<external, buffer, internal, locals, write_lock, nextAddr,
                   copied, tail, ret, suspended, hm, hmSusp, hmQueued, hlp,
                   mwl, lwl, sentLog, recvLog, cur, sinceRecv, lockFree,
                   lastNone, budget, headers, falsyCalls, iter>>

\* line 31: let _lock = self.write_lock.lock();
SendLockIf(s, free) ==
    /\ pc[s] = "sx_lock"
    /\ free
    /\ write_lock' = s
    /\ pc' = [pc EXCEPT ![s] = "sx_copy"]
    /\ UNCHANGED <<external, buffer, internal, locals, nextAddr, original,
                   copied, tail, ret, suspended, hm, hmSusp, hmQueued, hlp,
                   mwl, lwl, sentLog, recvLog, cur, sinceRecv, lockFree,
                   lastNone, budget, headers, falsyCalls, iter>>

\* A send that does not wait for the lock.
SendLockNoWait(s) == SendLockIf(s, TRUE)

\* A send that waits for the owner's drain only, not for other senders.
SendLockAmongSenders(s) == SendLockIf(s, write_lock # Owner)

SendLock(s) == SendLockIf(s, write_lock = Free)

\* line 34: self.allocator.copy_object(original)
SendCopyOf(s, result, used) ==
    /\ pc[s] = "sx_copy"
    /\ copied' = [copied EXCEPT ![s] = result]
    /\ nextAddr' = nextAddr + used
    /\ pc' = [pc EXCEPT ![s] = "sx_load"]
    /\ UNCHANGED <<external, buffer, internal, locals, write_lock, original,
                   tail, ret, suspended, hm, hmSusp, hmQueued, hlp, mwl, lwl,
                   sentLog, recvLog, cur, sinceRecv, lockFree, lastNone,
                   budget, headers, falsyCalls, iter>>

SendCopy(s) == SendCopyOf(s, copy_object(original[s], nextAddr), 1)

\* The same line when the allocator obtains no memory for the copy: line 34
\* hands whatever copy_object gives back to push_back.
SendCopyExhausted(s) == SendCopyOf(s, NoSpace, 0)

\* lines 33-34: push_back reads the queue it appends to ...
SendLoad(s) ==
    /\ pc[s] = "sx_load"
    /\ tail' = [tail EXCEPT ![s] = external]
    /\ pc' = [pc EXCEPT ![s] = "sx_store"]
    /\ UNCHANGED <<external, buffer, internal, locals, write_lock, nextAddr,
                   original, copied, ret, suspended, hm, hmSusp, hmQueued, hlp,
                   mwl, lwl, sentLog, recvLog, cur, sinceRecv, lockFree,
                   lastNone, budget, headers, falsyCalls, iter>>

\* ... and writes it back with the copy at the end; line 35 drops the lock.
SendStoreOf(s, pushed) ==
    /\ pc[s] = "sx_store"
    /\ external' = push_back(tail[s], pushed)
    /\ buffer' = push_slot(buffer, tail[s], pushed)
    /\ write_lock' = IF write_lock = s THEN Free ELSE write_lock
    /\ sentLog' = Append(sentLog, [kind |-> "external", from |-> s,
                                   arg |-> original[s], ptr |-> pushed])
    /\ sinceRecv' = sinceRecv + 1
    /\ tail' = [tail EXCEPT ![s] = <<>>]
    /\ original' = [original EXCEPT ![s] = NoPtr]
    /\ copied' = [copied EXCEPT ![s] = NoPtr]
    /\ pc' = [pc EXCEPT ![s] = "idle"]
    /\ UNCHANGED <<internal, locals, nextAddr, ret, suspended, hm, hmSusp,
                   hmQueued, hlp, mwl, lwl, recvLog, cur, lockFree, lastNone,
                   budget, headers, falsyCalls, iter>>

\* A send that enqueues the sender's own object instead of the copy.
SendStoreOriginal(s) == SendStoreOf(s, original[s])

SendStore(s) == SendStoreOf(s, copied[s])

----------------------------------------------------------------------------
\* send_from_self (mailbox.rs 37-39)
send_from_self_as(p, queue) ==
    /\ pc[Owner] = "idle"
    /\ ~suspended
    /\ Started < budget
    /\ locals' = queue
    /\ sentLog' = Append(sentLog, [kind |-> "self", from |-> Owner,
                                   arg |-> p, ptr |-> p])
    /\ UNCHANGED <<external, buffer, internal, write_lock, nextAddr, pc,
                   original, copied, tail, ret, suspended, hm, hmSusp,
                   hmQueued, hlp, mwl, lwl, recvLog, cur, sinceRecv, lockFree,
                   lastNone, budget, headers, falsyCalls, iter>>

\* A send that puts the message at the front of `locals`.
send_from_self_front(p) == send_from_self_as(p, <<p>> \o locals)

send_from_self(p) == send_from_self_as(p, push_back(locals, p))

----------------------------------------------------------------------------
\* receive (mailbox.rs 41-54)

\* The record of a receive() that returned p.
Returned(p, src, c) ==
    [ptr |-> p, src |-> src, nl |-> Len(locals), front |-> pop_front(locals),
     ni |-> Len(internal), due |-> c.due, locks |-> c.locks,
     moved |-> c.moved]

\* The receive() calls after this one that follow a bulk drain of N messages
\* sent since the previous receive(), out of the N-1 that follow it.
LockFreeAfter(c) ==
    IF c.locks > 0 /\ c.since >= 1 THEN c.since - 1
    ELSE IF c.due > 0 THEN c.due - 1 ELSE 0

Calling == [since |-> sinceRecv, ne |-> Len(external), due |-> lockFree,
            locks |-> 0, moved |-> 0, sent |-> Len(sentLog),
            nl |-> Len(locals), ni |-> Len(internal), held |-> 0]

\* lines 42-46: a local message is returned at once; without one the length
\* of `internal` decides between the drain and line 53.
ReceiveCallAs(hasLocal, popped) ==
    /\ pc[Owner] = "idle"
    /\ ~suspended
    /\ IF hasLocal
       THEN /\ ret' = pop_front(locals)
            /\ locals' = rest(locals)
            /\ recvLog' = Append(recvLog,
                                 Returned(pop_front(locals), "locals", Calling))
            /\ sinceRecv' = 0
            /\ lockFree' = LockFreeAfter(Calling)
            /\ UNCHANGED <<internal, pc, cur>>
       ELSE IF Len(internal) = 0
       THEN /\ pc' = [pc EXCEPT ![Owner] = "rc_lock"]
            /\ cur' = Calling
            /\ UNCHANGED <<internal, locals, ret, recvLog, sinceRecv,
                           lockFree>>
       ELSE /\ ret' = pop_front(internal)
            /\ internal' = popped
            /\ recvLog' = Append(recvLog,
                             Returned(pop_front(internal), "internal", Calling))
            /\ sinceRecv' = 0
            /\ lockFree' = LockFreeAfter(Calling)
            /\ UNCHANGED <<locals, pc, cur>>
    /\ UNCHANGED <<external, buffer, write_lock, nextAddr, original, copied,
                   tail, suspended, hm, hmSusp, hlp, mwl, lwl, sentLog,
                   lastNone, budget, headers, falsyCalls, iter>>
    /\ hmQueued' = (hmQueued /\ Queued' # <<>>)

\* A receive() that prefers `internal` to `locals`.
ReceiveCallInternalFirst ==
    ReceiveCallAs(locals # <<>> /\ internal = <<>>, rest(internal))

\* A receive() that returns the front of `internal` and leaves it queued.
ReceiveCallPeek == ReceiveCallAs(locals # <<>>, internal)

\* A receive() that goes to the drain whenever `internal` is empty.
ReceiveCallDrainFirst ==
    ReceiveCallAs(locals # <<>> /\ internal # <<>>, rest(internal))

ReceiveCall == ReceiveCallAs(locals # <<>>, rest(internal))

\* line 47: let _lock = self.write_lock.lock();
ReceiveLock ==
    /\ pc[Owner] = "rc_lock"
    /\ write_lock = Free
    /\ write_lock' = Owner
    /\ cur' = [cur EXCEPT !.locks = @ + 1]
    /\ pc' = [pc EXCEPT ![Owner] = "rc_drain"]
    /\ UNCHANGED <<external, buffer, internal, locals, nextAddr, original,
                   copied, tail, ret, suspended, hm, hmSusp, hmQueued, hlp,
                   mwl, lwl, sentLog, recvLog, sinceRecv, lockFree, lastNone,
                   budget, headers, falsyCalls, iter>>

\* lines 49-51: internal.append(external.drain(0..).collect()); lock dropped.
\* drain(0..) reads the pointers out of the slots and sets the length and
\* the head to 0: the buffer and the words in its slots stay.
ReceiveDrainOf(drained) ==
    /\ pc[Owner] = "rc_drain"
    /\ internal' = internal \o drained
    /\ external' = SubSeq(external, Len(drained) + 1, Len(external))
    /\ write_lock' = IF write_lock = Owner THEN Free ELSE write_lock
    /\ cur' = [cur EXCEPT !.moved = Len(drained), !.held = Len(external)]
    /\ pc' = [pc EXCEPT ![Owner] = "rc_pop"]
    /\ UNCHANGED <<buffer, locals, nextAddr, original, copied, tail, ret,
                   suspended, hm, hmSusp, hmQueued, hlp, mwl, lwl, sentLog,
                   recvLog, sinceRecv, lockFree, lastNone, budget, headers,
                   falsyCalls, iter>>

Reverse(q) == [i \in DOMAIN q |-> q[Len(q) + 1 - i]]

\* A drain that hands the messages over last first.
ReceiveDrainReversed == ReceiveDrainOf(Reverse(external))

\* A drain that moves the oldest message only.
ReceiveDrainOne ==
    ReceiveDrainOf(IF external = <<>> THEN <<>> ELSE <<Head(external)>>)

\* A receive() that takes the lock and moves nothing.
ReceiveDrainNothing == ReceiveDrainOf(<<>>)

ReceiveDrain == ReceiveDrainOf(external)

\* line 53: self.internal.pop_front()
ReceivePopAs(remaining) ==
    /\ pc[Owner] = "rc_pop"
    /\ ret' = pop_front(internal)
    /\ internal' = remaining
    /\ recvLog' = IF internal = <<>> THEN recvLog
                  ELSE Append(recvLog,
                           [Returned(pop_front(internal), "internal", cur)
                              EXCEPT !.ni = 0])
    /\ sinceRecv' = 0
    /\ lockFree' = LockFreeAfter(cur)
    /\ lastNone' = IF internal = <<>> THEN cur.sent ELSE lastNone
    /\ cur' = NoCall
    /\ pc' = [pc EXCEPT ![Owner] = "idle"]
    /\ UNCHANGED <<external, buffer, locals, write_lock, nextAddr, original,
                   copied, tail, suspended, hm, hmSusp, hlp, mwl, lwl, sentLog,
                   budget, headers, falsyCalls, iter>>
    /\ hmQueued' = (hmQueued /\ Queued' # <<>>)

\* A receive() that returns the front of `internal` without removing it.
ReceivePopKeep == ReceivePopAs(internal)

ReceivePop == ReceivePopAs(rest(internal))

----------------------------------------------------------------------------
\* has_local_pointers (mailbox.rs 56-58)
has_local_pointers ==
    /\ pc[Owner] = "idle"
    /\ ~suspended
    /\ hlp' = (Len(locals) > 0)
    /\ pc' = [pc EXCEPT ![Owner] = "hlp_ret"]
    /\ UNCHANGED <<external, buffer, internal, locals, write_lock, nextAddr,
                   original, copied, tail, ret, suspended, hm, hmSusp,
                   hmQueued, mwl, lwl, sentLog, recvLog, cur, sinceRecv,
                   lockFree, lastNone, budget, headers, falsyCalls, iter>>

\* The owner has used the answer.
HasLocalPointersReturn ==
    /\ pc[Owner] = "hlp_ret"
    /\ hlp' = FALSE
    /\ pc' = [pc EXCEPT ![Owner] = "idle"]
    /\ UNCHANGED <<external, buffer, internal, locals, write_lock, nextAddr,
                   original, copied, tail, ret, suspended, hm, hmSusp,
                   hmQueued, mwl, lwl, sentLog, recvLog, cur, sinceRecv,
                   lockFree, lastNone, budget, headers, falsyCalls, iter>>

\* mailbox_pointers (mailbox.rs 60-68): the work list it returns when no
\* send_from_external runs during the call.
mailbox_pointers == internal \o external

\* local_pointers (mailbox.rs 70-78): the work list it returns.
local_pointers == locals

\* The senders inside push_back, and those whose push_back finds the buffer
\* full and moves it.
Pushing == { s \in Senders : pc[s] = "sx_store" }

Reallocating == { s \in Pushing : Len(tail[s]) = capacity }

\* line 63, external.iter(): the iterator takes the buffer and the length of
\* `external` once.  No lock is held, so during the push_back of a sender (a
\* data race) the length it takes is the one before the push or the one
\* after it.
LengthSeenUnlocked ==
    {Len(external)} \cup { Len(tail[s]) + 1 : s \in Pushing }

\* The buffer the iterator took is no longer the one `external` uses, or a
\* push_back that moves the buffer is in progress: the slots the iterator
\* reads are those of an allocation that was given back.
BufferFreed == iter.cap # capacity \/ Reallocating # {}

\* lines 64-65: the words the iterator can read in slot i of its buffer.  The
\* slot of a queued message holds its pointer.  A slot behind the length, one
\* a push_back in progress has counted already, holds that push's pointer or
\* the word that was there before: the pointer of a message drained earlier,
\* or nothing written.  A slot of a freed buffer holds its old word or
\* something else.
SlotWords(i) ==
    (IF i <= Len(external) THEN {external[i]}
     ELSE (IF i <= capacity THEN {buffer[i]} ELSE {Dangling})
            \cup { copied[s] : s \in { t \in Pushing : Len(tail[t]) + 1 = i } })
      \cup (IF BufferFreed THEN {Dangling} ELSE {})

\* What the unsynchronised iteration over `external` can yield.
ExternalSeenUnlocked ==
    { q \in [1..iter.len -> UNION { SlotWords(i) : i \in 1..iter.len }] :
        \A i \in 1..iter.len : q[i] \in SlotWords(i) }

\* The collector enumerates the roots of a suspended process: the mailbox's
\* pointers, then the local ones, and consumes both work lists.
\* lines 60-63: no lock is taken; the iterators over the queues are made by
\* shared reference.
MailboxPointersCall ==
    /\ pc[Collector] = "idle"
    /\ suspended
    /\ \E n \in LengthSeenUnlocked : iter' = [len |-> n, cap |-> capacity]
    /\ pc' = [pc EXCEPT ![Collector] = "gc_iter"]
    /\ UNCHANGED <<external, buffer, internal, locals, write_lock, nextAddr,
                   original, copied, tail, ret, suspended, hm, hmSusp,
                   hmQueued, hlp, mwl, lwl, sentLog, recvLog, cur, sinceRecv,
                   lockFree, lastNone, budget, headers, falsyCalls>>

\* lines 64-67: the loop reads the slots, at any time after the iterator was
\* made, and pushes what it reads on the work list returned.
MailboxPointersLoopAs(left_internal, left_external) ==
    /\ pc[Collector] = "gc_iter"
    /\ \E seen \in ExternalSeenUnlocked : mwl' = internal \o seen
    /\ internal' = left_internal
    /\ external' = left_external
    /\ iter' = NoIter
    /\ pc' = [pc EXCEPT ![Collector] = "gc_locals"]
    /\ UNCHANGED <<buffer, locals, write_lock, nextAddr, original, copied,
                   tail, ret, suspended, hm, hmSusp, hmQueued, hlp, lwl,
                   sentLog, recvLog, cur, sinceRecv, lockFree, lastNone,
                   budget, headers, falsyCalls>>

\* A mailbox_pointers() that takes the pointers out of the queues.
MailboxPointersTake == MailboxPointersLoopAs(<<>>, <<>>)

MailboxPointersLoop == MailboxPointersLoopAs(internal, external)

LocalPointersCall ==
    /\ pc[Collector] = "gc_locals"
    /\ lwl' = local_pointers
    /\ pc' = [pc EXCEPT ![Collector] = "gc_trace"]
    /\ UNCHANGED <<external, buffer, internal, locals, write_lock, nextAddr,
                   original, copied, tail, ret, suspended, hm, hmSusp,
                   hmQueued, hlp, mwl, sentLog, recvLog, cur, sinceRecv,
                   lockFree, lastNone, budget, headers, falsyCalls, iter>>

Trace ==
    /\ pc[Collector] = "gc_trace"
    /\ mwl' = <<>>
    /\ lwl' = <<>>
    /\ pc' = [pc EXCEPT ![Collector] = "idle"]
    /\ UNCHANGED <<external, buffer, internal, locals, write_lock, nextAddr,
                   original, copied, tail, ret, suspended, hm, hmSusp,
                   hmQueued, hlp, sentLog, recvLog, cur, sinceRecv, lockFree,
                   lastNone, budget, headers, falsyCalls, iter>>

----------------------------------------------------------------------------
\* has_messages (mailbox.rs 84-92), called by the scheduler.

AllEmpty == locals = <<>> /\ internal = <<>> /\ external = <<>>

\* lines 85-87
HasMessagesCallAs(owned) ==
    /\ pc[Sched] = "idle"
    /\ IF owned
       THEN /\ hm' = [res |-> TRUE, empty |-> AllEmpty, susp |-> suspended,
                       queued |-> ~AllEmpty]
            /\ pc' = [pc EXCEPT ![Sched] = "hm_ret"]
            /\ UNCHANGED <<hmSusp, hmQueued>>
       ELSE /\ pc' = [pc EXCEPT ![Sched] = "hm_lock"]
            /\ hmSusp' = suspended
            /\ hmQueued' = ~AllEmpty
            /\ UNCHANGED hm
    /\ UNCHANGED <<external, buffer, internal, locals, write_lock, nextAddr,
                   original, copied, tail, ret, suspended, hlp, mwl, lwl,
                   sentLog, recvLog, cur, sinceRecv, lockFree, lastNone,
                   budget, headers, falsyCalls, iter>>

\* A has_messages() that does not look at `locals`.
HasMessagesCallInternalOnly == HasMessagesCallAs(Len(internal) > 0)

\* A has_messages() that does not look at `internal`.
HasMessagesCallLocalsOnly == HasMessagesCallAs(Len(locals) > 0)

HasMessagesCall == HasMessagesCallAs(Len(locals) > 0 \/ Len(internal) > 0)

\* line 89: let _lock = self.write_lock.lock();
HasMessagesLock ==
    /\ pc[Sched] = "hm_lock"
    /\ write_lock = Free
    /\ write_lock' = Sched
    /\ pc' = [pc EXCEPT ![Sched] = "hm_read"]
    /\ UNCHANGED <<external, buffer, internal, locals, nextAddr, original,
                   copied, tail, ret, suspended, hm, hmSusp, hmQueued, hlp,
                   mwl, lwl, sentLog, recvLog, cur, sinceRecv, lockFree,
                   lastNone, budget, headers, falsyCalls, iter>>

\* lines 91-92: self.external.len() > 0, and the lock is dropped.
HasMessagesReadAs(lock_after) ==
    /\ pc[Sched] = "hm_read"
    /\ hm' = [res |-> (Len(external) > 0), empty |-> AllEmpty, susp |-> hmSusp,
              queued |-> hmQueued]
    /\ write_lock' = lock_after
    /\ hmSusp' = FALSE
    /\ hmQueued' = FALSE
    /\ pc' = [pc EXCEPT ![Sched] = "hm_ret"]
    /\ UNCHANGED <<external, buffer, internal, locals, nextAddr, original,
                   copied, tail, ret, suspended, hlp, mwl, lwl, sentLog,
                   recvLog, cur, sinceRecv, lockFree, lastNone, budget,
                   headers, falsyCalls, iter>>

\* A has_messages() that returns with the lock still held.
HasMessagesReadKeepLock == HasMessagesReadAs(write_lock)

HasMessagesRead ==
    HasMessagesReadAs(IF write_lock = Sched THEN Free ELSE write_lock)

\* The scheduler has used the answer.
HasMessagesReturn ==
    /\ pc[Sched] = "hm_ret"
    /\ hm' = NoHm
    /\ pc' = [pc EXCEPT ![Sched] = "idle"]
    /\ UNCHANGED <<external, buffer, internal, locals, write_lock, nextAddr,
                   original, copied, tail, ret, suspended, hmSusp, hmQueued,
                   hlp, mwl, lwl, sentLog, recvLog, cur, sinceRecv, lockFree,
                   lastNone, budget, headers, falsyCalls, iter>>

----------------------------------------------------------------------------
\* The scheduler suspends the owner between two of its operations, and
\* resumes it.
Suspend ==
    /\ pc[Owner] = "idle"
    /\ ~suspended
    /\ suspended' = TRUE
    /\ UNCHANGED <<external, buffer, internal, locals, write_lock, nextAddr,
                   pc, original, copied, tail, ret, hm, hmSusp, hmQueued, hlp,
                   mwl, lwl, sentLog, recvLog, cur, sinceRecv, lockFree,
                   lastNone, budget, headers, falsyCalls, iter>>

Resume ==
    /\ suspended
    /\ pc[Collector] = "idle"
    /\ suspended' = FALSE
    /\ hmSusp' = FALSE
    /\ UNCHANGED <<external, buffer, internal, locals, write_lock, nextAddr,
                   pc, original, copied, tail, ret, hm, hmQueued, hlp, mwl,
                   lwl, sentLog, recvLog, cur, sinceRecv, lockFree, lastNone,
                   budget, headers, falsyCalls, iter>>

----------------------------------------------------------------------------
\* What the owner can pass to send_from_self: an object of its own heap, or
\* the message it received last.
OwnerPtrs == HeapPtrs(Owner) \cup ({ret} \ {NoPtr})

Next ==
    \/ \E s \in Senders : \E p \in HeapPtrs(s) : SendCall(s, p)
    \/ \E s \in Senders : SendLock(s)
    \/ \E s \in Senders : SendCopy(s)
    \/ \E s \in Senders : SendLoad(s)
    \/ \E s \in Senders : SendStore(s)
    \/ \E p \in OwnerPtrs : send_from_self(p)
    \/ ReceiveCall
    \/ ReceiveLock
    \/ ReceiveDrain
    \/ ReceivePop
    \/ has_local_pointers
    \/ HasLocalPointersReturn
    \/ MailboxPointersCall
    \/ MailboxPointersLoop
    \/ LocalPointersCall
    \/ Trace
    \/ HasMessagesCall
    \/ HasMessagesLock
    \/ HasMessagesRead
    \/ HasMessagesReturn
    \/ Suspend
    \/ Resume

Spec == Init /\ [][Next]_vars

\* The object headers alone: objects are constructed and made falsy.
NewHeader(o) ==
    /\ headers[o] = NoHeader
    /\ headers' = [headers EXCEPT ![o] = ObjectHeader_new]
    /\ UNCHANGED <<external, buffer, internal, locals, write_lock, nextAddr,
                   pc, original, copied, tail, ret, suspended, hm, hmSusp,
                   hmQueued, hlp, mwl, lwl, sentLog, recvLog, cur, sinceRecv,
                   lockFree, lastNone, budget, falsyCalls, iter>>

SetFalsy(o) ==
    /\ headers[o] # NoHeader
    /\ falsyCalls[o] < MaxFalsyCalls
    /\ headers' = [headers EXCEPT ![o] = set_falsy(@)]
    /\ falsyCalls' = [falsyCalls EXCEPT ![o] = @ + 1]
    /\ UNCHANGED <<external, buffer, internal, locals, write_lock, nextAddr,
                   pc, original, copied, tail, ret, suspended, hm, hmSusp,
                   hmQueued, hlp, mwl, lwl, sentLog, recvLog, cur, sinceRecv,
                   lockFree, lastNone, budget, iter>>

InitHeader == InitMailbox /\ budget = 0

NextHeader ==
    \/ \E o \in Objects : NewHeader(o)
    \/ \E o \in Objects : SetFalsy(o)

SpecHeader == InitHeader /\ [][NextHeader]_vars

\* The mailbox after MinCapacity sends of s1 that nobody received: the
\* buffer of `external` is full, and the next push_back moves it.
FirstOfS1 == CHOOSE p \in HeapPtrs("s1") : p.addr = 1

FullExternal == [i \in 1..MinCapacity |-> copy_object(FirstOfS1, i)]

InitRace ==
    /\ external = FullExternal
    /\ buffer = FullExternal
    /\ iter = NoIter
    /\ internal = <<>>
    /\ locals = <<>>
    /\ write_lock = Free
    /\ nextAddr = MinCapacity + 1
    /\ pc = [p \in Procs |-> "idle"]
    /\ original = [s \in Senders |-> NoPtr]
    /\ copied = [s \in Senders |-> NoPtr]
    /\ tail = [s \in Senders |-> <<>>]
    /\ ret = NoPtr
    /\ suspended = FALSE
    /\ hm = NoHm
    /\ hmSusp = FALSE
    /\ hmQueued = FALSE
    /\ hlp = FALSE
    /\ mwl = <<>>
    /\ lwl = <<>>
    /\ sentLog = [i \in 1..MinCapacity |->
                    [kind |-> "external", from |-> "s1",
                     arg |-> FirstOfS1, ptr |-> FullExternal[i]]]
    /\ recvLog = <<>>
    /\ cur = NoCall
    /\ sinceRecv = MinCapacity
    /\ lockFree = 0
    /\ lastNone = 0
    /\ headers = [o \in Objects |-> NoHeader]
    /\ falsyCalls = [o \in Objects |-> 0]
    /\ budget = MinCapacity + MaxRaceSends

SpecRace == InitRace /\ [][Next]_vars

\* The data path alone: the senders and the owner's sends and receives.
InitData == InitMailbox /\ budget = MaxDataSends

NextData ==
    \/ \E s \in Senders : \E p \in HeapPtrs(s) : SendCall(s, p)
    \/ \E s \in Senders : SendLock(s)
    \/ \E s \in Senders : SendCopy(s)
    \/ \E s \in Senders : SendLoad(s)
    \/ \E s \in Senders : SendStore(s)
    \/ \E p \in OwnerPtrs : send_from_self(p)
    \/ ReceiveCall
    \/ ReceiveLock
    \/ ReceiveDrain
    \/ ReceivePop

SpecData == InitData /\ [][NextData]_vars

\* The data path with an allocator that can be out of memory at any copy.
InitExhaust == InitMailbox /\ budget = MaxExhaustSends

NextExhaust ==
    \/ \E s \in Senders : \E p \in HeapPtrs(s) : SendCall(s, p)
    \/ \E s \in Senders : SendLock(s)
    \/ \E s \in Senders : SendCopy(s)
    \/ \E s \in Senders : SendCopyExhausted(s)
    \/ \E s \in Senders : SendLoad(s)
    \/ \E s \in Senders : SendStore(s)
    \/ \E p \in OwnerPtrs : send_from_self(p)
    \/ ReceiveCall
    \/ ReceiveLock
    \/ ReceiveDrain
    \/ ReceivePop

SpecExhaust == InitExhaust /\ [][NextExhaust]_vars

\* The data path with the scheduling the claims about progress assume: a
\* process inside an operation goes on, a lock that stays free is acquired,
\* and the owner keeps calling receive().
InitLive == InitMailbox /\ budget = MaxLiveSends

Fairness ==
    /\ WF_vars(ReceiveCall)
    /\ WF_vars(ReceiveLock)
    /\ WF_vars(ReceiveDrain)
    /\ WF_vars(ReceivePop)
    /\ \A s \in Senders : /\ WF_vars(SendLock(s))
                          /\ WF_vars(SendCopy(s))
                          /\ WF_vars(SendLoad(s))
                          /\ WF_vars(SendStore(s))

SpecLive == InitLive /\ [][NextData]_vars /\ Fairness

\* The operations that take the lock, with the scheduling the claims about
\* termination assume: a process inside an operation goes on, and the
\* mutex, which is eventually fair, is not denied for ever to a process
\* that waits for it.
NextLock ==
    \/ \E s \in Senders : \E p \in HeapPtrs(s) : SendCall(s, p)
    \/ \E s \in Senders : SendLock(s)
    \/ \E s \in Senders : SendCopy(s)
    \/ \E s \in Senders : SendLoad(s)
    \/ \E s \in Senders : SendStore(s)
    \/ ReceiveCall
    \/ ReceiveLock
    \/ ReceiveDrain
    \/ ReceivePop
    \/ HasMessagesCall
    \/ HasMessagesLock
    \/ HasMessagesRead
    \/ HasMessagesReturn

FairnessLock ==
    /\ SF_vars(ReceiveLock)
    /\ WF_vars(ReceiveDrain)
    /\ WF_vars(ReceivePop)
    /\ SF_vars(HasMessagesLock)
    /\ WF_vars(HasMessagesRead)
    /\ \A s \in Senders : /\ SF_vars(SendLock(s))
                          /\ WF_vars(SendCopy(s))
                          /\ WF_vars(SendLoad(s))
                          /\ WF_vars(SendStore(s))

SpecLock == InitLive /\ [][NextLock]_vars /\ FairnessLock

----------------------------------------------------------------------------
\* Histories

IsSelf(e) == e.kind = "self"
IsExternal(e) == e.kind = "external"
FromLocals(e) == e.src = "locals"
FromInternal(e) == e.src = "internal"

PtrsOf(log) == [i \in DOMAIN log |-> log[i].ptr]
ArgsOf(log) == [i \in DOMAIN log |-> log[i].arg]

\* The send_from_self calls and the appends to `external`, each in order.
SelfLog == SelectSeq(sentLog, IsSelf)
ExtLog == SelectSeq(sentLog, IsExternal)
\* What receive() returned from `locals` and from `internal`, each in order.
RecvLocals == SelectSeq(recvLog, FromLocals)
RecvExt == SelectSeq(recvLog, FromInternal)

----------------------------------------------------------------------------
\* C1: the messages receive() returns from `locals`, followed by those still
\* in `locals`, are the very pointers passed to send_from_self, in the order
\* of the calls: nothing is copied, reordered, lost or added.
C1_SelfFifoNoCopy == PtrsOf(RecvLocals) \o locals = ArgsOf(SelfLog)

\* Two different pointers were sent to self and both were received.
C1_Witness ==
    /\ Len(RecvLocals) >= 2
    /\ ~Identical(RecvLocals[1].ptr, RecvLocals[2].ptr)
    /\ RecvLocals[1].nl = 2

\* C2: the k-th message receive() returns from the external path is the
\* copy of the k-th pointer handed to send_from_external: structurally equal
\* to it and not pointer-identical to it.  With one message in the mailbox
\* this is the pointer sent.
C2_ExternalIsCopy ==
    \A k \in DOMAIN RecvExt :
        /\ k <= Len(ExtLog)
        /\ StructurallyEqual(RecvExt[k].ptr, ExtLog[k].arg)
        /\ ~Identical(RecvExt[k].ptr, ExtLog[k].arg)

\* One send_from_external, then a receive() on the otherwise empty mailbox.
C2_Witness ==
    /\ Len(sentLog) = 1
    /\ Len(recvLog) = 1
    /\ sentLog[1].kind = "external"
    /\ ret = recvLog[1].ptr
    /\ StructurallyEqual(ret, sentLog[1].arg)

\* C3: every pointer in `external` or `internal` is an object of the
\* mailbox's own arena, and is none of the pointers passed to
\* send_from_external or to send_from_self.
Passed == { sentLog[i].arg : i \in DOMAIN sentLog }
             \cup { original[s] : s \in Senders }

C3_QueuedArePrivateCopies ==
    \A p \in SeqRange(external \o internal) :
        /\ p.heap = MailboxHeap
        /\ p.addr \in 1..(nextAddr - 1)
        /\ \A q \in Passed : ~Identical(p, q)

\* A received copy was sent to self while other copies are still queued.
C3_Witness ==
    /\ internal # <<>>
    /\ \E i \in DOMAIN sentLog :
          sentLog[i].kind = "self" /\ sentLog[i].arg.heap = MailboxHeap

\* C4: a receive() called with `locals` non-empty returns the front of
\* `locals`, whatever `internal` and `external` hold.
C4_LocalsFirst ==
    \A i \in DOMAIN recvLog :
        recvLog[i].nl > 0 =>
            /\ recvLog[i].src = "locals"
            /\ recvLog[i].ptr = recvLog[i].front

\* A self-sent message was returned ahead of an external one sent before it.
C4_Witness ==
    /\ Len(sentLog) >= 2
    /\ sentLog[1].kind = "external"
    /\ sentLog[2].kind = "self"
    /\ Len(recvLog) >= 1
    /\ recvLog[1].src = "locals"
    /\ recvLog[1].ptr = sentLog[2].ptr

\* C5: the copies receive() returned from the external path, followed by
\* `internal`, followed by `external`, are the copies in the order they were
\* appended to `external`.
C5_ExternalFifo == PtrsOf(RecvExt) \o internal \o external = PtrsOf(ExtLog)

\* Two copies of different senders were received, each after its own drain.
C5_Witness ==
    /\ Len(RecvExt) >= 2
    /\ RecvExt[1].locks = 1
    /\ RecvExt[2].locks = 1
    /\ ExtLog[1].from # ExtLog[2].from

\* C6 as stated: the first receive() after N >= 1 calls of
\* send_from_external with no receive() in between takes the lock and
\* drains: called with sinceRecv >= 1, it goes on to line 47.
ReceiveIsCalled ==
    /\ pc[Owner] = "idle"
    /\ pc'[Owner] = "rc_lock" \/ Len(recvLog') = Len(recvLog) + 1

C6_FirstReceiveAlwaysDrains ==
    [][(ReceiveIsCalled /\ sinceRecv >= 1) => pc'[Owner] = "rc_lock"]_vars

\* C6, amended: if `locals` and `internal` are empty when that receive() is
\* called, it takes the lock exactly once and drains everything `external`
\* holds, the N messages included; and none of the N-1 receive() calls after
\* such a drain takes the lock.
C6_DrainOnceThenLockFree ==
    /\ \A i \in DOMAIN recvLog :
          /\ (recvLog[i].nl = 0 /\ recvLog[i].ni = 0) => recvLog[i].locks = 1
          /\ recvLog[i].due > 0 => recvLog[i].locks = 0
    /\ pc[Owner] = "rc_pop" =>
          /\ cur.locks = 1
          /\ cur.moved >= cur.since
          /\ cur.moved >= cur.ne
          /\ Len(internal) = cur.moved
    /\ pc[Owner] \in {"rc_lock", "rc_drain", "rc_pop"} => cur.due = 0
    /\ cur.locks <= 1

\* Two sends, a receive() that drained both, and a receive() without lock.
C6_Witness ==
    \E i \in DOMAIN recvLog :
        /\ i + 1 \in DOMAIN recvLog
        /\ recvLog[i].locks = 1
        /\ recvLog[i].moved = 2
        /\ recvLog[i + 1].due = 1
        /\ recvLog[i + 1].locks = 0
        /\ recvLog[i + 1].src = "internal"

----------------------------------------------------------------------------
\* C7: a has_messages() call during which the owner stayed suspended
\* answers false exactly if `locals`, `internal` and `external` are all
\* empty, `external` being looked at while the call holds the lock.
C7_HasMessagesWhenSuspended ==
    (pc[Sched] = "hm_ret" /\ hm.susp) => (hm.res = FALSE <=> hm.empty)

\* has_messages() answered false for a suspended owner that had received a
\* message before, and a sender took the lock right after it.
C7_Witness ==
    /\ pc[Sched] = "hm_ret"
    /\ hm.susp
    /\ hm.res = FALSE
    /\ recvLog # <<>>
    /\ \E s \in Senders : write_lock = s

\* C8: the work lists of mailbox_pointers() and local_pointers() together
\* hold each pointer as often as it was enqueued and not yet received; and
\* the lists the collector took of a suspended process are the local
\* pointers and the mailbox pointers, up to the sends that came after.
Enqueued == SeqToBag(PtrsOf(sentLog)) (-) SeqToBag(PtrsOf(recvLog))

C8_PointersAreTheEnqueued ==
    /\ SeqToBag(mailbox_pointers \o local_pointers) = Enqueued
    /\ pc[Collector] \in {"gc_locals", "gc_trace"} =>
          /\ Len(mwl) <= Len(internal \o external)
          /\ mwl = SubSeq(internal \o external, 1, Len(mwl))
          /\ Len(mwl) >= Len(internal)
    /\ pc[Collector] = "gc_trace" => lwl = locals

\* The collector took both lists after a drain, with a message left in
\* `internal`, and they hold what is enqueued.
C8_Witness ==
    /\ pc[Collector] = "gc_trace"
    /\ \E i \in DOMAIN recvLog : recvLog[i].locks = 1
    /\ internal # <<>>
    /\ mwl = internal \o external
    /\ SeqToBag(mwl \o lwl) = Enqueued

\* C9: no send is lost or duplicated.  Nothing is received more often than
\* it was sent, and when a receive() returns None every message whose send
\* had completed when that receive() was called has been received.
FirstSent(n) == SubSeq(PtrsOf(sentLog), 1, n)

C9_NoSendLostOrDuplicated ==
    /\ SeqToBag(PtrsOf(recvLog)) \sqsubseteq SeqToBag(PtrsOf(sentLog))
    /\ SeqToBag(FirstSent(lastNone)) \sqsubseteq SeqToBag(PtrsOf(recvLog))

\* Two senders sent one message each; both copies were received, once
\* each, and then receive() returned None.
C9_Witness ==
    /\ Len(sentLog) = 2
    /\ sentLog[1].from \in Senders
    /\ sentLog[2].from \in Senders
    /\ sentLog[1].from # sentLog[2].from
    /\ Len(recvLog) = 2
    /\ recvLog[1].ptr # recvLog[2].ptr
    /\ lastNone = 2
    /\ ret = NoPtr

----------------------------------------------------------------------------
\* C10: a queued message leaves the queues only by being returned by a
\* receive(); the messages returned and the messages queued are always as
\* many as the messages sent; and with the owner calling receive() again and
\* again, every message sent is eventually returned.
NewlyReceived ==
    SeqToBag(PtrsOf(recvLog')) (-) SeqToBag(PtrsOf(recvLog))

C10_QueuedUntilReceived ==
    /\ [](Len(recvLog) + Len(Queued) = Len(sentLog))
    /\ [][SeqToBag(Queued) \sqsubseteq
              (SeqToBag(Queued') (+) NewlyReceived)]_vars
    /\ \A n \in 1..MaxLiveSends :
          (Len(sentLog) >= n) ~>
              (/\ Len(sentLog) >= n
               /\ SeqToBag(FirstSent(n)) \sqsubseteq SeqToBag(PtrsOf(recvLog)))

\* A self-sent and an external message were sent, and both were returned.
C10_Witness ==
    /\ Len(sentLog) = budget
    /\ \E i \in DOMAIN sentLog : sentLog[i].kind = "self"
    /\ \E i \in DOMAIN sentLog : sentLog[i].kind = "external"
    /\ Len(recvLog) = Len(sentLog)
    /\ Queued = <<>>

----------------------------------------------------------------------------
\* C11: receive() returns None exactly if `locals` and `internal` were empty
\* when it was called and `external` was empty when the drain held the lock;
\* and when it returns None, no message whose send had completed when the
\* receive() was called is still queued.
ReceiveReturnsAfterDrain == pc[Owner] = "rc_pop" /\ pc'[Owner] = "idle"

ReceiveReturnsAtOnce ==
    pc[Owner] = "idle" /\ Len(recvLog') = Len(recvLog) + 1

C11_NoneOnlyWhenEmpty ==
    /\ [][ReceiveReturnsAfterDrain =>
            /\ cur.nl = 0 /\ cur.ni = 0
            /\ ret' = NoPtr <=> cur.held = 0
            /\ ret' = NoPtr =>
                  \A i \in 1..cur.sent : sentLog[i].ptr \notin SeqRange(Queued')
         ]_vars
    /\ [][ReceiveReturnsAtOnce =>
            /\ locals # <<>> \/ internal # <<>>
            /\ ret' # NoPtr]_vars

\* receive() returned None after the one message sent before it was called
\* had been received, while a message sent after its drain is queued.
C11_Witness ==
    /\ pc[Owner] = "idle"
    /\ ret = NoPtr
    /\ lastNone = 1
    /\ Len(recvLog) = 1
    /\ external # <<>>

----------------------------------------------------------------------------
\* C12: a step of mailbox_pointers(), local_pointers(), has_local_pointers()
\* or has_messages() leaves `external`, `internal` and `locals` as they are;
\* so, whatever queries are made, what receive() has returned and what is
\* still queued are the messages sent, in the order of the sends.
QueryStep ==
    \/ pc'[Sched] # pc[Sched]
    \/ pc'[Collector] # pc[Collector]
    \/ pc[Owner] = "idle" /\ pc'[Owner] = "hlp_ret"
    \/ pc[Owner] = "hlp_ret" /\ pc'[Owner] = "idle"

C12_QueriesLeaveQueues ==
    /\ [][QueryStep => UNCHANGED queues]_vars
    /\ [](/\ PtrsOf(RecvLocals) \o locals = ArgsOf(SelfLog)
          /\ PtrsOf(RecvExt) \o internal \o external = PtrsOf(ExtLog))

\* The collector holds both work lists and the scheduler an answer, after a
\* receive(), and the queues still hold the messages listed.
C12_Witness ==
    /\ pc[Collector] = "gc_trace"
    /\ pc[Sched] = "hm_ret"
    /\ hm.res = TRUE
    /\ mwl # <<>>
    /\ lwl # <<>>
    /\ mwl = internal \o external
    /\ lwl = locals

----------------------------------------------------------------------------
\* C13: a header as constructed has no name, three empty mappings, pinned
\* false and truthy true; after n >= 1 calls of set_falsy() it differs from
\* the constructed header in truthy alone, which is false; and a set_falsy()
\* after the first leaves the header as it is.
C13_SetFalsyOnlyClearsTruthy ==
    /\ [](\A o \in Objects :
            /\ (headers[o] # NoHeader /\ falsyCalls[o] = 0) =>
                  /\ headers[o].name = None
                  /\ headers[o].attributes = EmptyMap
                  /\ headers[o].constants = EmptyMap
                  /\ headers[o].methods = EmptyMap
                  /\ headers[o].pinned = FALSE
                  /\ headers[o].truthy = TRUE
            /\ falsyCalls[o] >= 1 =>
                  /\ headers[o].truthy = FALSE
                  /\ [headers[o] EXCEPT !.truthy = TRUE] = ObjectHeader_new)
    /\ [][\A o \in Objects :
             falsyCalls[o] >= 1 => headers'[o] = headers[o]]_vars

\* One header was made falsy twice, another is as constructed.
C13_Witness ==
    \E o, q \in Objects :
        /\ falsyCalls[o] = 2
        /\ headers[o].truthy = FALSE
        /\ headers[q] = ObjectHeader_new
        /\ falsyCalls[q] = 0

----------------------------------------------------------------------------
\* C14: a send_from_external whose copy found the allocator out of memory
\* reports it to its caller: it does not return as a completed send, with
\* the allocator's answer appended to `external` as the message.
C14_ExhaustionIsReported ==
    \A i \in DOMAIN sentLog :
        sentLog[i].kind = "external" => ~Identical(sentLog[i].ptr, NoSpace)

----------------------------------------------------------------------------
\* C15 as stated: no process holds the write lock while a sender is at the
\* copy of its message.
C15_NoLockWhileCopying ==
    \A s \in Senders : pc[s] = "sx_copy" => write_lock = Free

\* C15, amended: send_from_external takes the lock before the copy and
\* keeps it until the append is done; the copy is made by the process
\* holding the lock, so one sender at a time copies into the mailbox's
\* allocator.
Copying == { s \in Senders : pc[s] = "sx_copy" }

C15_CopyUnderLock ==
    /\ \A s \in Senders :
          pc[s] \in {"sx_copy", "sx_load", "sx_store"} <=> write_lock = s
    /\ Cardinality(Copying) <= 1

\* A sender copies its message while the other sender and the owner's
\* receive() wait for the lock.
C15_Witness ==
    /\ pc["s1"] = "sx_copy"
    /\ write_lock = "s1"
    /\ pc["s2"] = "sx_lock"
    /\ pc[Owner] = "rc_lock"

----------------------------------------------------------------------------
\* C16: every step that reads or writes `external` is taken by the process
\* holding the write lock, and none reads it during a sender's push_back.
ReadsOrWritesExternal(p) ==
    \/ p \in Senders /\ pc[p] \in {"sx_load", "sx_store"} /\ pc'[p] # pc[p]
    \/ p = Owner /\ pc[p] = "rc_drain" /\ pc'[p] # pc[p]
    \/ p = Sched /\ pc[p] = "hm_read" /\ pc'[p] # pc[p]
    \/ p = Collector /\ pc[p] \in {"idle", "gc_iter"} /\ pc'[p] # pc[p]

C16_ExternalOnlyUnderLock ==
    [][\A p \in Procs :
          ReadsOrWritesExternal(p) =>
              /\ write_lock = p
              /\ Pushing \subseteq {p}]_vars

----------------------------------------------------------------------------
\* C17: send_from_self, has_local_pointers and a receive() called with
\* `locals` or `internal` non-empty are not held up by the write lock: each
\* can be called and returns in the same step whoever holds the lock, and
\* none of them changes the lock or `external`.
FastPathStep ==
    \/ pc[Owner] = "idle" /\ locals' # locals /\ Len(locals') > Len(locals)
    \/ pc[Owner] = "idle" /\ pc'[Owner] = "hlp_ret"
    \/ ReceiveIsCalled /\ (locals # <<>> \/ internal # <<>>)

OwnerRuns == pc[Owner] = "idle" /\ ~suspended

C17_FastPathTakesNoLock ==
    /\ [][FastPathStep =>
            /\ pc'[Owner] \in {"idle", "hlp_ret"}
            /\ write_lock' = write_lock
            /\ external' = external]_vars
    /\ [](OwnerRuns =>
            /\ ENABLED has_local_pointers
            /\ (locals # <<>> \/ internal # <<>>) => ENABLED ReceiveCall
            /\ Started < budget =>
                  ENABLED (\E p \in OwnerPtrs : send_from_self(p)))

\* A sender is inside push_back with the lock; the owner has sent itself a
\* message and received it without the lock, and can go on.
C17_Witness ==
    /\ write_lock = "s1"
    /\ pc["s1"] = "sx_store"
    /\ OwnerRuns
    /\ Len(sentLog) = 1
    /\ sentLog[1].kind = "self"
    /\ Len(recvLog) = 1
    /\ recvLog[1].locks = 0
    /\ ret = sentLog[1].ptr
    /\ ENABLED has_local_pointers

----------------------------------------------------------------------------
\* C18: the lock is held exactly by a process between its acquisition and
\* the end of the operation that took it, so a process about to acquire it
\* does not hold it and the lock is free when no operation is in progress;
\* and with fair scheduling every operation that was started returns.
Holding(p) ==
    pc[p] \in {"sx_copy", "sx_load", "sx_store", "rc_drain", "hm_read"}

InOperation(p) == pc[p] \notin {"idle", "hm_ret", "hlp_ret"}

C18_LockReleasedAndOpsReturn ==
    /\ [](\A p \in Procs : write_lock = p <=> Holding(p))
    /\ []((\A p \in Procs : ~InOperation(p)) => write_lock = Free)
    /\ \A p \in Procs : InOperation(p) ~> ~InOperation(p)

\* Both senders, a draining receive() and a has_messages() that took the
\* lock have all returned, and the lock is free.
C18_Witness ==
    /\ \A p \in Procs : ~InOperation(p)
    /\ write_lock = Free
    /\ pc[Sched] = "hm_ret"
    /\ hm.res = FALSE
    /\ Len(ExtLog) = 2
    /\ ExtLog[1].from # ExtLog[2].from
    /\ \E i \in DOMAIN recvLog : recvLog[i].locks = 1

----------------------------------------------------------------------------
\* C19: has_messages() can answer false although a message was queued
\* during the whole call; it does so only when the owner was running during
\* the call, and the messages are then in `locals` or `internal`, where a
\* receive() of the owner has moved them after has_messages() looked there.
FalseThoughQueued ==
    /\ pc[Sched] = "hm_ret"
    /\ hm.res = FALSE
    /\ hm.queued

C19_FalseOnlyWhileOwnerRuns ==
    FalseThoughQueued => (~hm.susp /\ ~hm.empty)

\* has_messages() answered false with a message queued all along: the
\* owner's receive() drained `external` between the two checks.
C19_Witness ==
    /\ FalseThoughQueued
    /\ internal # <<>>
    /\ pc[Owner] = "rc_pop"

----------------------------------------------------------------------------
\* C20: `internal` only receives the contents of `external` when it is
\* empty; every message in `internal` was appended to `external` before
\* every message now in `external`; and the list of mailbox_pointers() is a
\* queue in delivery order: a send_from_external adds its copy at the end,
\* a receive() from the external path returns and removes its first
\* element, and the drain leaves it as it is; and what a call of
\* mailbox_pointers() returns is that list, up to the messages appended
\* during the call.
SentAt(p) == CHOOSE i \in DOMAIN ExtLog : ExtLog[i].ptr = p

C20_PointersInDeliveryOrder ==
    /\ [][Len(internal') > Len(internal) => internal = <<>>]_vars
    /\ [](\A i \in DOMAIN internal : \A j \in DOMAIN external :
             SentAt(internal[i]) < SentAt(external[j]))
    /\ [][\/ mailbox_pointers' = mailbox_pointers
          \/ /\ Len(ExtLog') = Len(ExtLog) + 1
             /\ mailbox_pointers' =
                   Append(mailbox_pointers, ExtLog'[Len(ExtLog')].ptr)
          \/ /\ Len(RecvExt') = Len(RecvExt) + 1
             /\ mailbox_pointers # <<>>
             /\ ret' = Head(mailbox_pointers)
             /\ mailbox_pointers' = Tail(mailbox_pointers)]_vars
    /\ [][(pc[Collector] = "gc_iter" /\ pc'[Collector] = "gc_locals") =>
            /\ Len(internal) <= Len(mwl')
            /\ Len(mwl') <= Len(mailbox_pointers)
            /\ mwl' = SubSeq(mailbox_pointers, 1, Len(mwl'))]_vars

\* The collector holds a list taken while a sender's push_back moved the
\* full buffer: it has the first, third and fourth of the four messages
\* queued, and in the place of the second, which is still queued, something
\* that is no message.
C20_Witness ==
    /\ pc[Collector] = "gc_locals"
    /\ Reallocating # {}
    /\ Len(mwl) = MinCapacity
    /\ mwl[1] = ExtLog[1].ptr
    /\ mwl[2] = Dangling
    /\ mwl[3] = ExtLog[3].ptr
    /\ mwl[4] = ExtLog[4].ptr
    /\ external[2] = ExtLog[2].ptr

====
